---- MODULE Spec2Model ----
(***************************************************************************)
(* Fiscal aggregation pipeline of apuracao.py (process_from_postgres and   *)
(* its helpers) together with the Gradio handler of app_gradio.py that     *)
(* configures it.                                                          *)
(*                                                                         *)
(* Representation                                                          *)
(*   - Python str values are TLA+ strings; a character is a string of      *)
(*     length 1 (Ch).                                                      *)
(*   - A Python float is a decimal number m * 10^e kept in normal form     *)
(*     (Float): m = 0 => e = 0, otherwise m has no trailing zero.          *)
(*   - A cell of a DataFrame is a record [t, v]: t = "null" (None / NaN),  *)
(*     t = "str" (text, v is the text) or t = "num" (int / float, v is     *)
(*     its decimal literal).                                               *)
(*   - Money inside the aggregator is kept in cents (Cents), proportional  *)
(*     rates in units of 1/10000, profit rates in units of 1/100.          *)
(***************************************************************************)
EXTENDS Integers, Sequences, FiniteSets, TLC

\* --------------------------------------------------------------------
\* Strings
\* --------------------------------------------------------------------
Ch(s, i) == SubSeq(s, i, i)

Rest(s) == SubSeq(s, 2, Len(s))

\* k in s  (Python substring test)
Contains(s, k) ==
  \E i \in 0..(Len(s) - Len(k)) : SubSeq(s, i + 1, i + Len(k)) = k

Chars(s) == {Ch(s, i) : i \in 1..Len(s)}

\* the function that maps the i-th character of from to the i-th of to
CharMap(from, to) ==
  [c \in Chars(from) |-> Ch(to, CHOOSE i \in 1..Len(from) : Ch(from, i) = c)]

UPPER == "ABCDEFGHIJKLMNOPQRSTUVWXYZÁÀÃÂÉÊÍÓÔÕÚÇ"

LOWER == "abcdefghijklmnopqrstuvwxyzáàãâéêíóôõúç"

ACCENTED == "áàãâéêíóôõúç"

UNACCENTED == "aaaaeeiooouc"

DIGITS == "0123456789"

\* \w on the characters of the model's names (ASCII letters, digits, "_")
WordChars == Chars("abcdefghijklmnopqrstuvwxyzABCDEFGHIJKLMNOPQRSTUVWXYZ0123456789_")

DigitChars == Chars(DIGITS)

LowerMap == CharMap(UPPER, LOWER)

UnaccentMap == CharMap(ACCENTED, UNACCENTED)

DigitVal == [c \in DigitChars |-> (CHOOSE i \in 1..10 : Ch(DIGITS, i) = c) - 1]

IsWordChar(ch) == ch \in WordChars

IsDigit(ch) == ch \in DigitChars

\* str.strip(ch): ch removed at both ends (ch = " " stands for whitespace)
RECURSIVE LStrip(_, _)
LStrip(s, ch) ==
  IF s # "" /\ Ch(s, 1) = ch THEN LStrip(Rest(s), ch) ELSE s

RECURSIVE RStrip(_, _)
RStrip(s, ch) ==
  IF s # "" /\ Ch(s, Len(s)) = ch
  THEN RStrip(SubSeq(s, 1, Len(s) - 1), ch)
  ELSE s

Strip(s, ch) == RStrip(LStrip(s, ch), ch)

\* every character c of s in DOMAIN map replaced by map[c]
RECURSIVE MapChars(_, _)
MapChars(s, map) ==
  IF s = "" THEN ""
  ELSE (IF Ch(s, 1) \in DOMAIN map THEN map[Ch(s, 1)] ELSE Ch(s, 1))
       \o MapChars(Rest(s), map)

\* str.lower()
LowerStr(s) == MapChars(s, LowerMap)

\* the chain of s.replace("á", "a")... of normalize_colname
Unaccent(s) == MapChars(s, UnaccentMap)

\* re.sub(r"[^\w]+", "_", s): every maximal run of non-word characters -> "_"
RECURSIVE SubNonWord(_)
SubNonWord(s) ==
  IF s = "" THEN ""
  ELSE IF IsWordChar(Ch(s, 1)) THEN Ch(s, 1) \o SubNonWord(Rest(s))
  ELSE IF Len(s) >= 2 /\ ~IsWordChar(Ch(s, 2)) THEN SubNonWord(Rest(s))
  ELSE "_" \o SubNonWord(Rest(s))

\* re.sub(r"_+", "_", s)
RECURSIVE Squeeze(_)
Squeeze(s) ==
  IF s = "" THEN ""
  ELSE IF Ch(s, 1) = "_" /\ Len(s) >= 2 /\ Ch(s, 2) = "_" THEN Squeeze(Rest(s))
  ELSE Ch(s, 1) \o Squeeze(Rest(s))

\* s.replace(old, "") for a non-empty old
RECURSIVE Remove(_, _)
Remove(s, old) ==
  IF Len(s) < Len(old) THEN s
  ELSE IF SubSeq(s, 1, Len(old)) = old THEN Remove(SubSeq(s, Len(old) + 1, Len(s)), old)
  ELSE Ch(s, 1) \o Remove(Rest(s), old)

\* s.replace(old, new) for single characters
ReplaceCh(s, old, new) == MapChars(s, [c \in {old} |-> new])

\* the characters of s that belong to the set keep, in order
RECURSIVE Keep(_, _)
Keep(s, keep) ==
  IF s = "" THEN ""
  ELSE (IF Ch(s, 1) \in keep THEN Ch(s, 1) ELSE "") \o Keep(Rest(s), keep)

\* position of the first ch in s, 0 when there is none
RECURSIVE FindCh(_, _, _)
FindCh(s, ch, i) ==
  IF i > Len(s) THEN 0 ELSE IF Ch(s, i) = ch THEN i ELSE FindCh(s, ch, i + 1)

\* --------------------------------------------------------------------
\* normalize_colname, find_best_column
\* --------------------------------------------------------------------
normalize_colname(c) ==
  LET s1 == LowerStr(Strip(c, " "))
      s2 == Unaccent(s1)
      s3 == SubNonWord(s2)
      s4 == Squeeze(s3)
  IN  Strip(s4, "_")

\* the value None as a column
None == "<None>"

AllIn(keywords, name) == \A k \in 1..Len(keywords) : Contains(name, keywords[k])

AnyIn(keywords, name) == \E k \in 1..Len(keywords) : Contains(name, keywords[k])

\* first loop of find_best_column: index of the first name of lowcols that
\* holds all the keywords, 0 when the loop ends
RECURSIVE ScanAll(_, _, _)
ScanAll(lowcols, keywords, i) ==
  IF i > Len(lowcols) THEN 0
  ELSE IF AllIn(keywords, lowcols[i]) THEN i
  ELSE ScanAll(lowcols, keywords, i + 1)

\* second loop of find_best_column
RECURSIVE ScanAny(_, _, _)
ScanAny(lowcols, keywords, i) ==
  IF i > Len(lowcols) THEN 0
  ELSE IF AnyIn(keywords, lowcols[i]) THEN i
  ELSE ScanAny(lowcols, keywords, i + 1)

\* [normalize_colname(c) for c in cols]
NormalizedNames(cols) == [i \in 1..Len(cols) |-> normalize_colname(cols[i])]

\* a faulty variant: the loop of the "any" pass runs before that of "all"
find_best_column_loose_first(cols, keywords) ==
  LET lowcols == NormalizedNames(cols)
      b == ScanAny(lowcols, keywords, 1)
      a == ScanAll(lowcols, keywords, 1)
  IN  IF b # 0 THEN cols[b] ELSE IF a # 0 THEN cols[a] ELSE None

\* lines 70-82
find_best_column(cols, keywords) ==
  LET lowcols == NormalizedNames(cols)
      a == ScanAll(lowcols, keywords, 1)
      b == ScanAny(lowcols, keywords, 1)
  IN  IF a # 0 THEN cols[a] ELSE IF b # 0 THEN cols[b] ELSE None

\* "x or y" on the results of find_best_column: None and "" are falsy
OrCol(x, y) == IF x # None /\ x # "" THEN x ELSE y

Truthy(x) == x # None /\ x # ""

\* --------------------------------------------------------------------
\* Floats and float(str)
\* --------------------------------------------------------------------
\* the float m * 10^e in normal form
RECURSIVE Float(_, _)
Float(m, e) ==
  IF m = 0 THEN [m |-> 0, e |-> 0]
  ELSE IF m % 10 = 0 THEN Float(m \div 10, e + 1)
  ELSE [m |-> m, e |-> e]

Zero == Float(0, 0)

IsDigits(s) == \A i \in 1..Len(s) : IsDigit(Ch(s, i))

RECURSIVE StrToNat(_)
StrToNat(s) ==
  IF s = "" THEN 0
  ELSE StrToNat(SubSeq(s, 1, Len(s) - 1)) * 10 + DigitVal[Ch(s, Len(s))]

\* float(s) for a str s: [ok |-> FALSE, ...] stands for ValueError.
\* Grammar: [sign] (digits [. [digits]] | . digits) [(e|E) [sign] digits].
\* The inputs keep the exponent inside the range of a double, so no
\* literal overflows to inf.
SignOf(s) == IF s # "" /\ Ch(s, 1) = "-" THEN -1 ELSE 1

Unsigned(s) == IF s # "" /\ Ch(s, 1) \in {"+", "-"} THEN Rest(s) ELSE s

RECURSIVE FindExp(_, _)
FindExp(s, i) ==
  IF i > Len(s) THEN 0 ELSE IF Ch(s, i) \in {"e", "E"} THEN i ELSE FindExp(s, i + 1)

FloatResult(v) == [ok |-> TRUE, m |-> v.m, e |-> v.e]

ValueError == [ok |-> FALSE, m |-> 0, e |-> 0]

\* sign, integer digits, fraction digits, and the exponent part when has_exp
PyFloatValue(sgn, ip, fp, has_exp, esgn, edig) ==
  IF /\ IsDigits(ip) /\ IsDigits(fp) /\ Len(ip) + Len(fp) >= 1
     /\ (has_exp => (edig # "" /\ IsDigits(edig)))
  THEN FloatResult(Float(sgn * StrToNat(ip \o fp), esgn * StrToNat(edig) - Len(fp)))
  ELSE ValueError

PyFloatMantissa(sgn, mant, dpos, has_exp, expo) ==
  PyFloatValue(sgn,
               IF dpos = 0 THEN mant ELSE SubSeq(mant, 1, dpos - 1),
               IF dpos = 0 THEN "" ELSE SubSeq(mant, dpos + 1, Len(mant)),
               has_exp, SignOf(expo), Unsigned(expo))

PyFloatSplit(sgn, mant, has_exp, expo) ==
  PyFloatMantissa(sgn, mant, FindCh(mant, ".", 1), has_exp, expo)

PyFloatBody(sgn, body, epos) ==
  PyFloatSplit(sgn,
               IF epos = 0 THEN body ELSE SubSeq(body, 1, epos - 1),
               epos # 0,
               IF epos = 0 THEN "" ELSE SubSeq(body, epos + 1, Len(body)))

PyFloat(s) == PyFloatBody(SignOf(s), Unsigned(s), FindExp(Unsigned(s), 1))

FloatOf(r) == [m |-> r.m, e |-> r.e]

\* --------------------------------------------------------------------
\* parse_valor_brasileiro
\* --------------------------------------------------------------------
NullCell == [t |-> "null", v |-> ""]

Str(s) == [t |-> "str", v |-> s]

Num(s) == [t |-> "num", v |-> s]

\* characters kept by re.sub(r"[^\d\-,\.eE+]", "", s)
CleanChars == Chars("0123456789-,.eE+")

HasComma(s) == Contains(s, ",")

HasDot(s) == Contains(s, ".")

\* s_clean.replace(".", "").replace(",", ".")
BrToDot(s) == ReplaceCh(Remove(s, "."), ",", ".")

\* lines 125-134: the digit runs of s_clean, concatenated
parse_fallback(s_clean) ==
  LET joined == Keep(s_clean, DigitChars)
  IN  IF joined = "" THEN Zero ELSE FloatOf(PyFloat(joined))

\* lines 120-124 and on: float(s_clean), else the fallback
parse_direct(s_clean) ==
  LET d == PyFloat(s_clean)
  IN  IF d.ok THEN FloatOf(d) ELSE parse_fallback(s_clean)

\* lines 113-119 and on: both separators, "." is the thousands separator
parse_both(s_clean) ==
  LET r == PyFloat(BrToDot(s_clean))
  IN  IF HasDot(s_clean) /\ HasComma(s_clean) /\ r.ok THEN FloatOf(r)
      ELSE parse_direct(s_clean)

\* a faulty variant: "." is taken for the thousands separator whenever the
\* text holds one
parse_clean_dots_first(s_clean) ==
  LET r == PyFloat(BrToDot(s_clean))
  IN  IF HasDot(s_clean) /\ r.ok THEN FloatOf(r)
      ELSE IF HasComma(s_clean) /\ r.ok THEN FloatOf(r)
      ELSE parse_direct(s_clean)

\* lines 105-112 and on: "," and no ".", "," is the decimal separator
parse_clean(s_clean) ==
  LET r == PyFloat(BrToDot(s_clean))
  IN  IF HasComma(s_clean) /\ ~HasDot(s_clean) /\ r.ok THEN FloatOf(r)
      ELSE parse_both(s_clean)

\* lines 94-105: from the text to s_clean
CleanOf(text) ==
  LET s  == Strip(text, " ")
      s1 == Remove(Remove(s, "R$"), " ")
  IN  Keep(s1, CleanChars)

parse_valor_brasileiro(v) ==
  IF v.t = "null" THEN Zero
  ELSE IF v.t = "num"
  THEN LET r == PyFloat(v.v) IN IF r.ok THEN FloatOf(r) ELSE Zero
  ELSE IF Strip(v.v, " ") = "" THEN Zero
  ELSE parse_clean(CleanOf(v.v))

\* --------------------------------------------------------------------
\* Numbers of the aggregator
\* --------------------------------------------------------------------
RECURSIVE Pow10(_)
Pow10(n) == IF n <= 0 THEN 1 ELSE 10 * Pow10(n - 1)

\* a float as an amount of cents (the amounts of the model's tables have at
\* most two decimals, for which this is exact)
Cents(f) == IF f.e >= -2 THEN f.m * Pow10(f.e + 2) ELSE f.m \div Pow10(-2 - f.e)

\* the product of two floats
Mul(a, b) == Float(a.m * b.m, a.e + b.e)

RECURSIVE SumSeq(_)
SumSeq(q) == IF q = <<>> THEN 0 ELSE Head(q) + SumSeq(Tail(q))

RECURSIVE SumFn(_)
SumFn(f) ==
  IF DOMAIN f = {} THEN 0
  ELSE LET k == CHOOSE x \in DOMAIN f : TRUE
       IN  f[k] + SumFn([x \in DOMAIN f \ {k} |-> f[x]])

RECURSIVE IntToStr(_)
IntToStr(n) ==
  IF n < 10 THEN Ch(DIGITS, n + 1)
  ELSE IntToStr(n \div 10) \o Ch(DIGITS, (n % 10) + 1)

\* --------------------------------------------------------------------
\* DataFrames: [cols |-> sequence of column names,
\*              rows |-> sequence of functions column name -> cell]
\* --------------------------------------------------------------------
ColSet(cols) == {cols[i] : i \in 1..Len(cols)}

HasCol(df, c) == c \in ColSet(df.cols)

\* df.rename(columns = {old: new})
RenameCol(df, old, new) ==
  LET ncols == [i \in 1..Len(df.cols) |-> IF df.cols[i] = old THEN new ELSE df.cols[i]]
  IN  [cols |-> ncols,
       rows |-> [i \in 1..Len(df.rows) |->
                   [c \in ColSet(ncols) |->
                      IF c = new THEN df.rows[i][old] ELSE df.rows[i][c]]]]

\* df.rename(columns = {c: normalize_colname(c) for c in df.columns})
NormalizeCols(df) ==
  LET ncols == NormalizedNames(df.cols)
      orig(c) == df.cols[CHOOSE i \in 1..Len(ncols) : ncols[i] = c]
  IN  [cols |-> ncols,
       rows |-> [i \in 1..Len(df.rows) |->
                   [c \in ColSet(ncols) |-> df.rows[i][orig(c)]]]]

\* df[c] = constant cell
AddCol(df, c, cell) ==
  IF HasCol(df, c)
  THEN [cols |-> df.cols,
        rows |-> [i \in 1..Len(df.rows) |-> [df.rows[i] EXCEPT ![c] = cell]]]
  ELSE [cols |-> Append(df.cols, c),
        rows |-> [i \in 1..Len(df.rows) |->
                    [k \in ColSet(df.cols) \cup {c} |->
                       IF k = c THEN cell ELSE df.rows[i][k]]]]

\* astype(str) of a cell
AsStr(cell) == IF cell.t = "null" THEN "None" ELSE cell.v

\* name of a right-hand column in the merge result, suffixes = ("", "_nota")
RightName(c, overlap) == IF c \in overlap THEN c \o "_nota" ELSE c

\* one row of a left merge: the left cells and, under their result names, the
\* cells of the matching right row (all null when rmatch = 0)
MergedRow(lrow, lcols, right, rnames, rmatch) ==
  [cells |->
     [c \in ColSet(lcols) \cup ColSet(rnames) |->
        IF c \in ColSet(lcols) THEN lrow.cells[c]
        ELSE IF rmatch = 0 THEN NullCell
        ELSE right.rows[rmatch][right.cols[CHOOSE j \in 1..Len(rnames) : rnames[j] = c]]],
   valor |-> lrow.valor]

\* the indexes of s that satisfy a membership set, in increasing order
RECURSIVE SortedIdx(_, _)
SortedIdx(S, n) ==
  IF n = 0 THEN <<>>
  ELSE IF n \in S THEN Append(SortedIdx(S, n - 1), n) ELSE SortedIdx(S, n - 1)

\* how = "left": every left row once per matching right row, once with an
\* empty right side when nothing matches; match[i] is the set of the right
\* rows that match the left row i
RECURSIVE LeftJoinRows(_, _, _, _, _, _)
LeftJoinRows(lrows, lcols, right, rnames, match, i) ==
  IF i > Len(lrows) THEN <<>>
  ELSE (IF match[i] = {}
        THEN <<MergedRow(lrows[i], lcols, right, rnames, 0)>>
        ELSE [k \in 1..Cardinality(match[i]) |->
                MergedRow(lrows[i], lcols, right, rnames,
                          SortedIdx(match[i], Len(right.rows))[k])])
       \o LeftJoinRows(lrows, lcols, right, rnames, match, i + 1)

\* the names of the right-hand columns rcols in the merge result
RightNames(rcols, overlap) == [j \in 1..Len(rcols) |-> RightName(rcols[j], overlap)]

\* lines 238-245: chunk.merge(notas_index, left_on = "chave_acesso",
\* right_index = True, how = "left") after reset_index(drop = True) and
\* index.astype(str): the right index is the row position "0", "1", ...
MergeOnRowPosition(lcols, lrows, right) ==
  [cols |-> lcols \o RightNames(right.cols, ColSet(lcols) \cap ColSet(right.cols)),
   rows |-> LeftJoinRows(lrows, lcols, right,
                         RightNames(right.cols, ColSet(lcols) \cap ColSet(right.cols)),
                         [i \in 1..Len(lrows) |->
                            {j \in 1..Len(right.rows) :
                               AsStr(lrows[i].cells["chave_acesso"]) = IntToStr(j - 1)}],
                         1)]

\* the columns of notas_index other than the key
NotKey(c) == c # "chave_acesso"

\* line 247: chunk.merge(notas_index, on = "chave_acesso", how = "left")
MergeOnKey(lcols, lrows, right) ==
  [cols |-> lcols \o RightNames(SelectSeq(right.cols, NotKey),
                                (ColSet(lcols) \cap ColSet(right.cols)) \ {"chave_acesso"}),
   rows |-> LeftJoinRows(lrows, lcols,
                         [cols |-> SelectSeq(right.cols, NotKey), rows |-> right.rows],
                         RightNames(SelectSeq(right.cols, NotKey),
                                    (ColSet(lcols) \cap ColSet(right.cols)) \ {"chave_acesso"}),
                         [i \in 1..Len(lrows) |->
                            {j \in 1..Len(right.rows) :
                               right.rows[j]["chave_acesso"] = lrows[i].cells["chave_acesso"]}],
                         1)]

\* --------------------------------------------------------------------
\* Dates: pd.to_datetime(..., errors = "coerce") and to_period("M").astype(str)
\* on the texts dd/mm/yyyy; every other text of the model's tables is
\* unparseable.  The result is the month label, "NaT" for NaT.
\* --------------------------------------------------------------------
NaT == "NaT"

MonthOf(cell, dayfirst) ==
  IF cell.t # "str" THEN NaT
  ELSE LET s == cell.v
           shape == /\ Len(s) = 10
                    /\ Ch(s, 3) = "/" /\ Ch(s, 6) = "/"
                    /\ IsDigits(SubSeq(s, 1, 2)) /\ IsDigits(SubSeq(s, 4, 5))
                    /\ IsDigits(SubSeq(s, 7, 10))
           a == StrToNat(SubSeq(s, 1, 2))
           b == StrToNat(SubSeq(s, 4, 5))
           monthfirst == ~dayfirst /\ a \in 1..12
           mm == IF monthfirst THEN SubSeq(s, 1, 2) ELSE SubSeq(s, 4, 5)
           dd == IF monthfirst THEN b ELSE a
       IN  IF shape /\ StrToNat(mm) \in 1..12 /\ dd \in 1..31
           THEN SubSeq(s, 7, 10) \o "-" \o mm
           ELSE NaT

\* --------------------------------------------------------------------
\* process_from_postgres: set-up on the table notas (lines 143-178)
\* --------------------------------------------------------------------
\* chave_col / item_chave
FindChave(cols) ==
  OrCol(find_best_column(cols, <<"chave", "acesso">>), find_best_column(cols, <<"chave">>))

\* the loop over valor_cols_try and its fallback
RECURSIVE FindFirstTry(_, _, _)
FindFirstTry(cols, tries, i) ==
  IF i > Len(tries) THEN None
  ELSE IF Truthy(find_best_column(cols, <<tries[i]>>))
       THEN find_best_column(cols, <<tries[i]>>)
       ELSE FindFirstTry(cols, tries, i + 1)

FindValorNotas(cols) ==
  LET v == FindFirstTry(cols, <<"valor_total", "valor", "valor_nota", "total">>, 1)
  IN  IF v # None THEN v ELSE find_best_column(cols, <<"valor">>)

\* a column after .apply(parse_valor_brasileiro): the float, written in cents
ParsedCell(cell) == [t |-> "num", v |-> IntToStr(Cents(parse_valor_brasileiro(cell)))]

ApplyParse(df, c) ==
  [cols |-> df.cols,
   rows |-> [i \in 1..Len(df.rows) |->
               [df.rows[i] EXCEPT ![c] = ParsedCell(df.rows[i][c])]]]

\* the reason of the SystemExit of the set-up, "" when it succeeds
NotasErrorOf(n_rows, n1, chave_col) ==
  IF n_rows = 0 THEN "notas vazia"
  ELSE IF ~Truthy(chave_col) THEN "sem chave"
  ELSE IF FindValorNotas(RenameCol(n1, chave_col, "chave_acesso").cols) = None
  THEN "sem valor"
  ELSE ""

NotasErrorNormalized(n_rows, n1) == NotasErrorOf(n_rows, n1, FindChave(n1.cols))

NotasError(notas_df) == NotasErrorNormalized(Len(notas_df.rows), NormalizeCols(notas_df))

\* notas_index (its data; the name of its index is the variable index_name)
WithValorTotal(n2) ==
  ApplyParse(RenameCol(n2, FindValorNotas(n2.cols), "valor_total"), "valor_total")

WithChaveAcesso(n1) == RenameCol(n1, FindChave(n1.cols), "chave_acesso")

BuildNotasIndex(notas_df) == WithValorTotal(WithChaveAcesso(NormalizeCols(notas_df)))

\* --------------------------------------------------------------------
\* process_from_postgres: one chunk (lines 202-308)
\* --------------------------------------------------------------------
FindItemVal(cols) ==
  OrCol(OrCol(find_best_column(cols, <<"valor_total">>),
              find_best_column(cols, <<"valor_item">>)),
        find_best_column(cols, <<"valor">>))

\* float(re.sub(r"[^\d\-\.]", "", str(x)) or 0)
QtdFloat(cell) ==
  LET s == Keep(AsStr(cell), Chars("0123456789-."))
  IN  IF s = "" THEN [ok |-> TRUE, m |-> 0, e |-> 0] ELSE PyFloat(s)

\* lines 219-231: the float of valor_total_item of one row of the chunk
\* (columns already normalized, key renamed); item_val_col as found on cols
ItemValor(item_val_col, cols, row) ==
  IF Truthy(item_val_col) THEN parse_valor_brasileiro(row[item_val_col])
  ELSE IF "valor_unitario" \in ColSet(cols) /\ "quantidade" \in ColSet(cols)
  THEN Mul(parse_valor_brasileiro(row["valor_unitario"]),
           FloatOf(QtdFloat(row["quantidade"])))
  ELSE Zero

\* the chunk with its column valor_total_item (lines 221-231)
WithValorItem(c2) ==
  LET item_val_col == FindItemVal(c2.cols)
      c3 == IF Truthy(item_val_col) THEN RenameCol(c2, item_val_col, "valor_total_item")
            ELSE AddCol(c2, "valor_total_item", NullCell)
      valor == [i \in 1..Len(c2.rows) |-> Cents(ItemValor(item_val_col, c2.cols, c2.rows[i]))]
  IN  [cols |-> c3.cols,
       rows |-> [i \in 1..Len(c3.rows) |->
                   [c3.rows[i] EXCEPT !["valor_total_item"] =
                      [t |-> "num", v |-> IntToStr(valor[i])]]],
       valor |-> valor]

\* lines 234-247: the merge with notas_index; by_key is
\* notas_index.index.name == "chave_acesso"
MergeNotas(c3, notas_idx, by_key) ==
  LET lrows == [i \in 1..Len(c3.rows) |-> [cells |-> c3.rows[i], valor |-> c3.valor[i]]]
      srows == [i \in 1..Len(lrows) |->
                  [lrows[i] EXCEPT !.cells["chave_acesso"] = Str(AsStr(@))]]
  IN  IF by_key THEN MergeOnRowPosition(c3.cols, srows, notas_idx)
      ELSE MergeOnKey(c3.cols, lrows, notas_idx)

\* lines 249-256: the month label of data_emissao_parsed of one merged row
MesAno(cols, cells) ==
  IF "data_emissao" \in ColSet(cols) THEN MonthOf(cells["data_emissao"], TRUE)
  ELSE IF "data_emissao_nota" \in ColSet(cols) THEN MonthOf(cells["data_emissao_nota"], FALSE)
  ELSE NaT

\* "rename the detected column unless it already has the name; add the
\* column with '' when it is still missing" (lines 259-277)
EnsureCol(df, found, name, asis) ==
  LET d1 == IF Truthy(found) /\ found \notin asis THEN RenameCol(df, found, name) ELSE df
  IN  IF HasCol(d1, name) THEN d1 ELSE AddCol(d1, name, Str(""))

\* groupby(label)["valor_total_item"].sum().items() added into a bucket
\* mapping; groupby leaves out the rows whose label is null (dropna)
GroupKeys(labels) == {labels[i].v : i \in {j \in 1..Len(labels) : labels[j].t # "null"}}

GroupSum(labels, valor, k) ==
  SumSeq([i \in 1..Len(labels) |->
            IF labels[i].t # "null" /\ labels[i].v = k THEN valor[i] ELSE 0])

AddGroups(bucket, labels, valor) ==
  [k \in DOMAIN bucket \cup GroupKeys(labels) |->
     (IF k \in DOMAIN bucket THEN bucket[k] ELSE 0)
     + (IF k \in GroupKeys(labels) THEN GroupSum(labels, valor, k) ELSE 0)]

\* df[c] = one cell per row
AddColSeq(df, c, cells) ==
  [cols |-> IF HasCol(df, c) THEN df.cols ELSE Append(df.cols, c),
   rows |-> [i \in 1..Len(df.rows) |->
               [k \in ColSet(df.cols) \cup {c} |->
                  IF k = c THEN cells[i] ELSE df.rows[i][k]]]]

\* lines 206-277 on one chunk: whether it is skipped and, when it is not,
\* valor_total_item and the four labels of every row of the merged chunk
SkippedFrame ==
  [skip |-> TRUE, valor |-> <<>>, mes |-> <<>>, uf |-> <<>>, cfop |-> <<>>, ncm |-> <<>>]

\* lines 259-264
EnsureUf(d) ==
  EnsureCol(d, OrCol(find_best_column(d.cols, <<"uf_emitente">>),
                     find_best_column(d.cols, <<"uf_emit">>)),
            "uf_emitente", {"uf_emitente", "uf_emit"})

\* lines 267-271
EnsureCfop(d) == EnsureCol(d, find_best_column(d.cols, <<"cfop">>), "cfop", {"cfop"})

\* lines 273-277
EnsureNcm(d) == EnsureCol(d, find_best_column(d.cols, <<"ncm">>), "ncm", {"ncm"})

FrameLabelled(m, mes, d) ==
  [skip |-> FALSE,
   valor |-> [i \in 1..Len(m.rows) |-> m.rows[i].valor],
   mes  |-> mes,
   uf   |-> [i \in 1..Len(d.rows) |-> d.rows[i]["uf_emitente"]],
   cfop |-> [i \in 1..Len(d.rows) |-> d.rows[i]["cfop"]],
   ncm  |-> [i \in 1..Len(d.rows) |-> d.rows[i]["ncm"]]]

\* lines 249-277 on the merged chunk m, mes its month labels
FrameDated(m, mes) ==
  FrameLabelled(m, mes,
    EnsureNcm(EnsureCfop(EnsureUf(
      AddColSeq([cols |-> m.cols, rows |-> [i \in 1..Len(m.rows) |-> m.rows[i].cells]],
                "data_emissao_parsed", mes)))))

FrameMerged(m) ==
  FrameDated(m, [i \in 1..Len(m.rows) |-> Str(MesAno(m.cols, m.rows[i].cells))])

\* a faulty variant: a chunk without a key column is folded as rows of
\* amount zero and empty labels instead of taking the continue of line 217
FrameOfKeyZeros(c1, item_chave, notas_idx, by_key) ==
  IF ~Truthy(item_chave)
  THEN [skip |-> FALSE,
        valor |-> [i \in 1..Len(c1.rows) |-> 0],
        mes  |-> [i \in 1..Len(c1.rows) |-> Str(NaT)],
        uf   |-> [i \in 1..Len(c1.rows) |-> Str("")],
        cfop |-> [i \in 1..Len(c1.rows) |-> Str("")],
        ncm  |-> [i \in 1..Len(c1.rows) |-> Str("")]]
  ELSE FrameMerged(MergeNotas(WithValorItem(RenameCol(c1, item_chave, "chave_acesso")),
                              notas_idx, by_key))

\* lines 211-247 on the chunk c1 (columns normalized), item_chave as found
FrameOfKey(c1, item_chave, notas_idx, by_key) ==
  IF ~Truthy(item_chave) THEN SkippedFrame
  ELSE FrameMerged(MergeNotas(WithValorItem(RenameCol(c1, item_chave, "chave_acesso")),
                              notas_idx, by_key))

FrameNormalized(c1, notas_idx, by_key) ==
  FrameOfKey(c1, FindChave(c1.cols), notas_idx, by_key)

ChunkFrame(chunk, notas_idx, by_key) ==
  FrameNormalized(NormalizeCols(chunk), notas_idx, by_key)

\* a faulty variant: the four taxes are assigned ("=") where the code
\* accumulates ("+=")
FoldAccumAssign(acc, f, cfg) ==
  LET chunk_sum == SumSeq(f.valor)
  IN  [acc EXCEPT
         !.total_rows_itens = @ + Len(f.valor),
         !.faturamento_bruto = @ + chunk_sum,
         !.icms_estimado = chunk_sum * cfg.ALIQ_ICMS_DEFAULT,
         !.iss_estimado = chunk_sum * cfg.ALIQ_ISS_DEFAULT,
         !.pis_estimado = chunk_sum * cfg.ALIQ_PIS_CUM,
         !.cofins_estimado = chunk_sum * cfg.ALIQ_COFINS_CUM]

\* lines 281-289: the accumulator after one chunk; cfg holds the module's
\* rate variables as they are when the lines run
FoldAccum(acc, f, cfg) ==
  LET chunk_sum == SumSeq(f.valor)
  IN  [acc EXCEPT
         !.total_rows_itens = @ + Len(f.valor),
         !.faturamento_bruto = @ + chunk_sum,
         !.icms_estimado = @ + chunk_sum * cfg.ALIQ_ICMS_DEFAULT,
         !.iss_estimado = @ + chunk_sum * cfg.ALIQ_ISS_DEFAULT,
         !.pis_estimado = @ + chunk_sum * cfg.ALIQ_PIS_CUM,
         !.cofins_estimado = @ + chunk_sum * cfg.ALIQ_COFINS_CUM]

\* lines 281-308: the run's state st = [by_key, accum, mes, uf, cfop, ncm]
\* after the chunk whose frame is f
FoldFrame(st, f, cfg) ==
  IF f.skip THEN st
  ELSE [by_key |-> FALSE,
        accum  |-> FoldAccum(st.accum, f, cfg),
        mes    |-> AddGroups(st.mes, f.mes, f.valor),
        uf     |-> AddGroups(st.uf, f.uf, f.valor),
        cfop   |-> AddGroups(st.cfop, f.cfop, f.valor),
        ncm    |-> AddGroups(st.ncm, f.ncm, f.valor)]

\* one iteration of the loop over the reader
StepChunk(st, chunk, notas_idx, cfg) ==
  FoldFrame(st, ChunkFrame(chunk, notas_idx, st.by_key), cfg)

\* a faulty variant: the lucro_presumido branch is taken under every regime
EstimateIrpjCsllNoElse(acc, cfg) ==
  LET base == acc.faturamento_bruto * cfg.PRESUNCAO
  IN  [acc EXCEPT !.csll_estimado = base * cfg.ALIQUOTA_CSLL,
                  !.irpj_estimado = base * cfg.ALIQUOTA_IRPJ]

\* lines 312-327
EstimateIrpjCsll(acc, cfg) ==
  IF cfg.ESTIMAR_IRPJ_CSLL
  THEN IF cfg.ENQUADRAMENTO = "lucro_presumido"
       THEN LET base_presumida == acc.faturamento_bruto * cfg.PRESUNCAO
            IN  [acc EXCEPT !.csll_estimado = base_presumida * cfg.ALIQUOTA_CSLL,
                            !.irpj_estimado = base_presumida * cfg.ALIQUOTA_IRPJ]
       ELSE IF cfg.ENQUADRAMENTO = "lucro_real"
       THEN LET lucro_contabil == acc.faturamento_bruto * cfg.ESTIMATED_MARGIN
            IN  [acc EXCEPT !.csll_estimado = lucro_contabil * cfg.ALIQUOTA_CSLL,
                            !.irpj_estimado = lucro_contabil * cfg.ALIQUOTA_IRPJ]
       ELSE [acc EXCEPT !.csll_estimado = 0, !.irpj_estimado = 0]
  ELSE [acc EXCEPT !.csll_estimado = 0, !.irpj_estimado = 0]

\* --------------------------------------------------------------------
\* Module variables of apuracao.py (lines 36-47).  Proportional rates in
\* units of 1/10000, profit rates in units of 1/100.
\* --------------------------------------------------------------------
ALIQ_ICMS_DEFAULT == 1800

ALIQ_ISS_DEFAULT == 500

ALIQ_PIS_CUM == 65

ALIQ_COFINS_CUM == 300

PRESUNCAO == 8

ALIQUOTA_IRPJ == 15

ALIQUOTA_CSLL == 9

ESTIMATED_MARGIN == 10

ModuleDefaults ==
  [ALIQ_ICMS_DEFAULT |-> ALIQ_ICMS_DEFAULT, ALIQ_ISS_DEFAULT |-> ALIQ_ISS_DEFAULT,
   ALIQ_PIS_CUM |-> ALIQ_PIS_CUM, ALIQ_COFINS_CUM |-> ALIQ_COFINS_CUM,
   ESTIMAR_IRPJ_CSLL |-> TRUE, ENQUADRAMENTO |-> "lucro_presumido",
   PRESUNCAO |-> PRESUNCAO, ALIQUOTA_IRPJ |-> ALIQUOTA_IRPJ,
   ALIQUOTA_CSLL |-> ALIQUOTA_CSLL, ESTIMATED_MARGIN |-> ESTIMATED_MARGIN]

\* --------------------------------------------------------------------
\* Inputs: the arguments of executar_apuracao_e_agent and the two tables
\* --------------------------------------------------------------------
MaxItens == 3

MaxChunkSize == 2

Args(icms, iss, pis, cofins, irpj, csll, presuncao, enquadramento) ==
  [aliq_icms |-> icms, aliq_iss |-> iss, aliq_pis |-> pis, aliq_cofins |-> cofins,
   aliq_irpj |-> irpj, aliq_csll |-> csll, presuncao |-> presuncao,
   enquadramento |-> enquadramento]

DefaultArgs ==
  Args(ALIQ_ICMS_DEFAULT, ALIQ_ISS_DEFAULT, ALIQ_PIS_CUM, ALIQ_COFINS_CUM,
       ALIQUOTA_IRPJ, ALIQUOTA_CSLL, PRESUNCAO, "lucro_presumido")

ArgChoices ==
  { DefaultArgs,
    [DefaultArgs EXCEPT !.enquadramento = "simples_nacional"],
    [DefaultArgs EXCEPT !.enquadramento = "mei"],
    Args(1200, 200, 100, 760, 25, 12, 32, "lucro_real") }

Row(cols, cells) == [c \in ColSet(cols) |-> cells[CHOOSE i \in 1..Len(cols) : cols[i] = c]]

SeqsUpTo(S, n) == UNION {[1..k -> S] : k \in 1..n}

NotasCols == <<"CHAVE DE ACESSO", "DATA EMISSÃO", "UF EMITENTE", "VALOR NOTA FISCAL">>

NotaA1 == Row(NotasCols, <<Str("A1"), Str("15/01/2024"), Str("SP"), Str("1.010,00")>>)

NotaB2 == Row(NotasCols, <<Str("B2"), Str("20/02/2024"), Str("RJ"), Str("10,00")>>)

NotaA1bis == Row(NotasCols, <<Str("A1"), Str("05/03/2024"), Str("MG"), Str("0,75")>>)

NotasColsShort == <<"Chave", "Valor">>

\* tables on which the set-up succeeds
NotasGood ==
  { [cols |-> NotasCols, rows |-> <<NotaA1, NotaB2>>],
    [cols |-> NotasCols, rows |-> <<NotaA1, NotaA1bis>>],
    [cols |-> NotasColsShort, rows |-> <<Row(NotasColsShort, <<Str("A1"), Str("10,00")>>)>>] }

\* tables on which it raises SystemExit
NotasBad ==
  { [cols |-> NotasCols, rows |-> <<>>],
    [cols |-> <<"NUMERO", "VALOR">>,
     rows |-> <<Row(<<"NUMERO", "VALOR">>, <<Str("1"), Str("10,00")>>)>>],
    [cols |-> <<"CHAVE", "UF">>,
     rows |-> <<Row(<<"CHAVE", "UF">>, <<Str("A1"), Str("SP")>>)>>] }

NotasTables == NotasGood \cup NotasBad

ItensColsA == <<"CHAVE DE ACESSO", "CFOP", "CÓDIGO NCM/SH", "VALOR TOTAL">>

ItensColsB == <<"PRODUTO", "VALOR TOTAL">>

ItensColsC == <<"CHAVE", "QUANTIDADE", "VALOR UNITÁRIO">>

ItensColsD == <<"CHAVE", "QUANTIDADE">>

ItensColsE == <<"CHAVE DE ACESSO", "DATA EMISSÃO", "UF EMITENTE", "VALOR TOTAL">>

ItensSchemas ==
  { [cols |-> ItensColsA,
     rows |-> { Row(ItensColsA, <<Str("A1"), Str("5102"), Str("8471"), Str("10,00")>>),
                Row(ItensColsA, <<Str("0"), Str("6102"), Str("8471"), Str("2,50")>>),
                Row(ItensColsA, <<Str("B2"), NullCell, NullCell, Str("0,75")>>) }],
    [cols |-> ItensColsB,
     rows |-> { Row(ItensColsB, <<Str("caneta"), Str("10,00")>>) }],
    [cols |-> ItensColsC,
     rows |-> { Row(ItensColsC, <<Str("A1"), Str("2"), Str("1,50")>>),
                Row(ItensColsC, <<Str("0"), Str("3"), Str("1,50")>>) }],
    [cols |-> ItensColsD,
     rows |-> { Row(ItensColsD, <<Str("A1"), Str("2")>>) }],
    [cols |-> ItensColsE,
     rows |-> { Row(ItensColsE, <<Str("A1"), Str("31/01/2024"), Str("SP"), Str("10,00")>>),
                Row(ItensColsE, <<Str("ZZ"), Str("s/d"), NullCell, Str("2,50")>>) }] }

ItensTables ==
  UNION { {[cols |-> s.cols, rows |-> q] : q \in SeqsUpTo(s.rows, MaxItens)} : s \in ItensSchemas }

ChunkSizes == 1..MaxChunkSize

\* the files of the output directory, in the order in which lines 343-360
\* write them
FILES ==
  <<"resumo_apuracao.json", "resumo_apuracao.csv", "faturamento_por_mes.csv",
    "faturamento_por_uf_emitente.csv", "faturamento_por_cfop.csv",
    "faturamento_por_ncm.csv">>

\* --------------------------------------------------------------------
\* State
\* --------------------------------------------------------------------
VARIABLES
  ap,                      \* the module variables of apuracao, as app_gradio sees them
  params,                  \* the arguments of this invocation of the handler
  pc,                      \* position of the run, or of the function applied on its own
  notas, itens,            \* the tables of the database
  chunk_size,
  pos,                     \* rows of itens the reader has handed out
  notas_index, index_name,
  accum,
  faturamento_por_mes, faturamento_por_uf_emit, faturamento_por_cfop, faturamento_por_ncm,
  resumo,
  files,                   \* files written by this run, in order
  erro,                    \* why the run failed
  chunks_skipped,          \* history: chunks that took the continue of line 217
  used,                    \* history: the module variables as read by lines 286-289, 313-321
  other_pc, other_params,  \* a second invocation of the handler (lines 50-57)
  cols_in, kws_in, col_out, \* find_best_column applied on its own
  valor_in, valor_out      \* parse_valor_brasileiro applied on its own

vars ==
  <<ap, params, pc, notas, itens, chunk_size, pos, notas_index, index_name, accum,
    faturamento_por_mes, faturamento_por_uf_emit, faturamento_por_cfop,
    faturamento_por_ncm, resumo, files, erro, chunks_skipped, used,
    other_pc, other_params, cols_in, kws_in, col_out, valor_in, valor_out>>

runVars ==
  <<ap, params, pc, notas, itens, chunk_size, pos, notas_index, index_name, accum,
    faturamento_por_mes, faturamento_por_uf_emit, faturamento_por_cfop,
    faturamento_por_ncm, resumo, files, erro, chunks_skipped, used,
    other_pc, other_params>>

pureVars == <<cols_in, kws_in, col_out, valor_in, valor_out>>

EmptyBucket == [k \in {} |-> 0]

EmptyFrame == [cols |-> <<>>, rows |-> <<>>]

\* lines 181-190
AccumInit ==
  [total_rows_itens |-> 0, faturamento_bruto |-> 0, icms_estimado |-> 0,
   iss_estimado |-> 0, pis_estimado |-> 0, cofins_estimado |-> 0,
   irpj_estimado |-> 0, csll_estimado |-> 0]

PureIdle ==
  /\ cols_in = <<>> /\ kws_in = <<>> /\ col_out = None
  /\ valor_in = NullCell /\ valor_out = Zero

RunIdle ==
  /\ ap = ModuleDefaults
  /\ params = DefaultArgs
  /\ pos = 0
  /\ notas_index = EmptyFrame
  /\ index_name = "None"
  /\ accum = AccumInit
  /\ faturamento_por_mes = EmptyBucket
  /\ faturamento_por_uf_emit = EmptyBucket
  /\ faturamento_por_cfop = EmptyBucket
  /\ faturamento_por_ncm = EmptyBucket
  /\ resumo = AccumInit
  /\ files = <<>>
  /\ erro = ""
  /\ chunks_skipped = 0
  /\ used = {}
  /\ other_pc = 0
  /\ other_params = DefaultArgs

Init ==
  /\ RunIdle
  /\ pc = "idle"
  /\ notas \in NotasTables
  /\ itens \in ItensTables
  /\ chunk_size \in ChunkSizes
  /\ PureIdle

\* --------------------------------------------------------------------
\* Actions
\* --------------------------------------------------------------------
\* app_gradio.py lines 50-57: the module variables as the handler leaves them
ConfigOf(cfg, p) ==
  [cfg EXCEPT !.ALIQ_ICMS_DEFAULT = p.aliq_icms, !.ALIQ_ISS_DEFAULT = p.aliq_iss,
              !.ALIQ_PIS_CUM = p.aliq_pis, !.ALIQ_COFINS_CUM = p.aliq_cofins,
              !.ALIQUOTA_IRPJ = p.aliq_irpj, !.ALIQUOTA_CSLL = p.aliq_csll,
              !.PRESUNCAO = p.presuncao, !.ENQUADRAMENTO = p.enquadramento]

\* executar_apuracao_e_agent up to the call of process_from_postgres
Configure ==
  /\ pc = "idle"
  /\ \E p \in ArgChoices :
       /\ params' = p
       /\ ap' = ConfigOf(ap, p)
  /\ pc' = "load"
  /\ UNCHANGED <<notas, itens, chunk_size, pos, notas_index, index_name, accum,
                 faturamento_por_mes, faturamento_por_uf_emit, faturamento_por_cfop,
                 faturamento_por_ncm, resumo, files, erro, chunks_skipped, used,
                 other_pc, other_params, pureVars>>

\* process_from_postgres lines 140-199
LoadNotas ==
  /\ pc = "load"
  /\ IF NotasError(notas) # ""
     THEN /\ pc' = "failed"
          /\ erro' = NotasError(notas)
          /\ UNCHANGED <<notas_index, index_name>>
     ELSE /\ pc' = "stream"
          /\ notas_index' = BuildNotasIndex(notas)
          /\ index_name' = "chave_acesso"
          /\ erro' = erro
  /\ UNCHANGED <<ap, params, notas, itens, chunk_size, pos, accum,
                 faturamento_por_mes, faturamento_por_uf_emit, faturamento_por_cfop,
                 faturamento_por_ncm, resumo, files, chunks_skipped, used,
                 other_pc, other_params, pureVars>>

\* the chunk the reader hands out next
NextEnd == IF pos + chunk_size <= Len(itens.rows) THEN pos + chunk_size ELSE Len(itens.rows)

ChunkAt(tbl, from, to) == [cols |-> tbl.cols, rows |-> SubSeq(tbl.rows, from + 1, to)]

NextChunk == ChunkAt(itens, pos, NextEnd)

St ==
  [by_key |-> index_name = "chave_acesso", accum |-> accum,
   mes |-> faturamento_por_mes, uf |-> faturamento_por_uf_emit,
   cfop |-> faturamento_por_cfop, ncm |-> faturamento_por_ncm]

\* lines 202-217: an iteration that ends at the continue
ChunkSkipped ==
  /\ pc = "stream"
  /\ pos < Len(itens.rows)
  /\ ~Truthy(FindChave(NormalizedNames(itens.cols)))
  /\ \E s \in {StepChunk(St, NextChunk, notas_index, ap)} :
         /\ index_name' = IF s.by_key THEN "chave_acesso" ELSE "None"
         /\ accum' = s.accum
         /\ faturamento_por_mes' = s.mes
         /\ faturamento_por_uf_emit' = s.uf
         /\ faturamento_por_cfop' = s.cfop
         /\ faturamento_por_ncm' = s.ncm
  /\ pos' = NextEnd
  /\ chunks_skipped' = chunks_skipped + 1
  /\ UNCHANGED <<ap, params, pc, notas, itens, chunk_size, notas_index,
                 resumo, files, erro, used,
                 other_pc, other_params, pureVars>>

\* lines 202-308: an iteration that folds its chunk
ChunkFolded ==
  /\ pc = "stream"
  /\ pos < Len(itens.rows)
  /\ Truthy(FindChave(NormalizedNames(itens.cols)))
  /\ \E s \in {StepChunk(St, NextChunk, notas_index, ap)} :
         /\ index_name' = IF s.by_key THEN "chave_acesso" ELSE "None"
         /\ accum' = s.accum
         /\ faturamento_por_mes' = s.mes
         /\ faturamento_por_uf_emit' = s.uf
         /\ faturamento_por_cfop' = s.cfop
         /\ faturamento_por_ncm' = s.ncm
  /\ pos' = NextEnd
  /\ used' = used \cup {ap}
  /\ UNCHANGED <<ap, params, pc, notas, itens, chunk_size, notas_index,
                 resumo, files, erro, chunks_skipped,
                 other_pc, other_params, pureVars>>

\* the reader raises while the chunks are streamed (connection lost, ...)
ReaderFails ==
  /\ pc = "stream"
  /\ pos < Len(itens.rows)
  /\ pc' = "failed"
  /\ erro' = "read_sql"
  /\ UNCHANGED <<ap, params, notas, itens, chunk_size, pos, notas_index, index_name, accum,
                 faturamento_por_mes, faturamento_por_uf_emit, faturamento_por_cfop,
                 faturamento_por_ncm, resumo, files, chunks_skipped, used,
                 other_pc, other_params, pureVars>>

\* lines 330-340 (generated_at, the wall-clock time, is left out)
ResumoOf(acc) == acc

\* lines 312-340: the reader is exhausted
Estimate ==
  /\ pc = "stream"
  /\ pos = Len(itens.rows)
  /\ accum' = EstimateIrpjCsll(accum, ap)
  /\ resumo' = ResumoOf(accum')
  /\ used' = used \cup {ap}
  /\ pc' = "write"
  /\ UNCHANGED <<ap, params, notas, itens, chunk_size, pos, notas_index, index_name,
                 faturamento_por_mes, faturamento_por_uf_emit, faturamento_por_cfop,
                 faturamento_por_ncm, files, erro, chunks_skipped,
                 other_pc, other_params, pureVars>>

\* lines 343-360: the next of the six files is written
WriteFile ==
  /\ pc = "write"
  /\ files' = Append(files, FILES[Len(files) + 1])
  /\ pc' = IF Len(files') = Len(FILES) THEN "done" ELSE "write"
  /\ UNCHANGED <<ap, params, notas, itens, chunk_size, pos, notas_index, index_name, accum,
                 faturamento_por_mes, faturamento_por_uf_emit, faturamento_por_cfop,
                 faturamento_por_ncm, resumo, erro, chunks_skipped, used,
                 other_pc, other_params, pureVars>>

\* lines 343-360: open() or to_csv() raises OSError on the next file
WriteFails ==
  /\ pc = "write"
  /\ pc' = "failed"
  /\ erro' = FILES[Len(files) + 1]
  /\ UNCHANGED <<ap, params, notas, itens, chunk_size, pos, notas_index, index_name, accum,
                 faturamento_por_mes, faturamento_por_uf_emit, faturamento_por_cfop,
                 faturamento_por_ncm, resumo, files, chunks_skipped, used,
                 other_pc, other_params, pureVars>>

Next ==
  \/ Configure
  \/ LoadNotas
  \/ ChunkSkipped
  \/ ChunkFolded
  \/ ReaderFails
  \/ Estimate
  \/ WriteFile
  \/ WriteFails

Spec == Init /\ [][Next]_vars

\* --------------------------------------------------------------------
\* The loop of lines 202-308 as a function of the sequence of chunks
\* --------------------------------------------------------------------
\* the chunks pd.read_sql(query_itens, engine, chunksize = size) yields
RECURSIVE ChunksFrom(_, _, _)
ChunksFrom(tbl, size, from) ==
  IF from >= Len(tbl.rows) THEN <<>>
  ELSE <<ChunkAt(tbl, from, IF from + size <= Len(tbl.rows) THEN from + size
                            ELSE Len(tbl.rows))>>
       \o ChunksFrom(tbl, size, from + size)

\* the run's state when the loop is entered (lines 178-194)
StartState ==
  [by_key |-> TRUE, accum |-> AccumInit, mes |-> EmptyBucket, uf |-> EmptyBucket,
   cfop |-> EmptyBucket, ncm |-> EmptyBucket]

RECURSIVE FoldChunks(_, _, _, _)
FoldChunks(st, chunks, notas_idx, cfg) ==
  IF chunks = <<>> THEN st
  ELSE FoldChunks(StepChunk(st, Head(chunks), notas_idx, cfg), Tail(chunks), notas_idx, cfg)

\* valor_total_item of the rows of a table of itens (lines 206-231)
ItemAmounts(tbl) ==
  WithValorItem(RenameCol(NormalizeCols(tbl), FindChave(NormalizedNames(tbl.cols)),
                          "chave_acesso")).valor

\* --------------------------------------------------------------------
\* A second invocation of executar_apuracao_e_agent while the first one
\* runs: nothing in app_gradio.py serialises the handler, and lines 50-57
\* write the module variables one after the other
\* --------------------------------------------------------------------
HandlerWrites ==
  <<"ALIQ_ICMS_DEFAULT", "ALIQ_ISS_DEFAULT", "ALIQ_PIS_CUM", "ALIQ_COFINS_CUM",
    "ALIQUOTA_IRPJ", "ALIQUOTA_CSLL", "PRESUNCAO", "ENQUADRAMENTO">>

HandlerReads ==
  <<"aliq_icms", "aliq_iss", "aliq_pis", "aliq_cofins",
    "aliq_irpj", "aliq_csll", "presuncao", "enquadramento">>

\* the second invocation is entered with its arguments
OtherInvoke ==
  /\ pc \in {"load", "stream"}
  /\ other_pc = 0
  /\ \E p \in ArgChoices : other_params' = p
  /\ other_pc' = 1
  /\ UNCHANGED <<ap, params, pc, notas, itens, chunk_size, pos, notas_index, index_name,
                 accum, faturamento_por_mes, faturamento_por_uf_emit,
                 faturamento_por_cfop, faturamento_por_ncm, resumo, files, erro,
                 chunks_skipped, used, pureVars>>

\* the next of its assignments of lines 50-57
OtherAssign ==
  /\ other_pc \in 1..Len(HandlerWrites)
  /\ ap' = [ap EXCEPT ![HandlerWrites[other_pc]] = other_params[HandlerReads[other_pc]]]
  /\ other_pc' = other_pc + 1
  /\ UNCHANGED <<params, pc, notas, itens, chunk_size, pos, notas_index, index_name,
                 accum, faturamento_por_mes, faturamento_por_uf_emit,
                 faturamento_por_cfop, faturamento_por_ncm, resumo, files, erro,
                 chunks_skipped, used, other_params, pureVars>>

ConcSchemas ==
  { [cols |-> ItensColsA,
     rows |-> { Row(ItensColsA, <<Str("A1"), Str("5102"), Str("8471"), Str("10,00")>>) }],
    [cols |-> ItensColsB,
     rows |-> { Row(ItensColsB, <<Str("caneta"), Str("10,00")>>) }] }

ConcTables ==
  UNION { {[cols |-> s.cols, rows |-> q] : q \in SeqsUpTo(s.rows, MaxItens)} : s \in ConcSchemas }

InitConc ==
  /\ RunIdle
  /\ pc = "idle"
  /\ notas = [cols |-> NotasCols, rows |-> <<NotaA1, NotaB2>>]
  /\ itens \in ConcTables
  /\ chunk_size \in ChunkSizes
  /\ PureIdle

NextConc ==
  \/ Next
  \/ OtherInvoke
  \/ OtherAssign

SpecConc == InitConc /\ [][NextConc]_vars

\* --------------------------------------------------------------------
\* find_best_column on its own
\* --------------------------------------------------------------------
MaxCols == 3

ColumnNames == {"Valor Total", "VALOR UNITÁRIO", "Chave de Acesso", "Total", "UF"}

ColsInputs == {<<>>} \cup SeqsUpTo(ColumnNames, MaxCols)

KeywordInputs ==
  { <<"valor", "total">>, <<"chave", "acesso">>, <<"valor">>, <<"uf", "total">>, <<"ncm">> }

InitCols ==
  /\ RunIdle
  /\ pc = "find_best_column"
  /\ notas = EmptyFrame /\ itens = EmptyFrame /\ chunk_size = 1
  /\ cols_in \in ColsInputs
  /\ kws_in \in KeywordInputs
  /\ col_out = None
  /\ valor_in = NullCell /\ valor_out = Zero

CallFindBestColumn ==
  /\ pc = "find_best_column"
  /\ col_out' = find_best_column(cols_in, kws_in)
  /\ pc' = "returned"
  /\ UNCHANGED <<ap, params, notas, itens, chunk_size, pos, notas_index, index_name, accum,
                 faturamento_por_mes, faturamento_por_uf_emit, faturamento_por_cfop,
                 faturamento_por_ncm, resumo, files, erro, chunks_skipped, used,
                 other_pc, other_params, cols_in, kws_in, valor_in, valor_out>>

SpecCols == InitCols /\ [][CallFindBestColumn]_vars

\* --------------------------------------------------------------------
\* parse_valor_brasileiro on its own
\* --------------------------------------------------------------------
MaxStrLen == 3

ValorChars == {"1", "0", ",", ".", "-"}

RECURSIVE StringsUpTo(_)
StringsUpTo(n) ==
  IF n = 0 THEN {""}
  ELSE StringsUpTo(n - 1) \cup {s \o c : s \in StringsUpTo(n - 1), c \in ValorChars}

ValorInputs ==
  {Str(s) : s \in StringsUpTo(MaxStrLen)}
  \cup { Str("2.970,00"), Str("2970,00"), Str("2970.00"), Str("1.234,56"),
         Str("R$ 1.234,56"), Str(" "), Str("abc"), Str("1e3"), Str("1,2,3"),
         Str("1.234.567,89"), Num("2970"), Num("0.5"), NullCell }

InitParse ==
  /\ RunIdle
  /\ pc = "parse_valor_brasileiro"
  /\ notas = EmptyFrame /\ itens = EmptyFrame /\ chunk_size = 1
  /\ cols_in = <<>> /\ kws_in = <<>> /\ col_out = None
  /\ valor_in \in ValorInputs
  /\ valor_out = Zero

CallParseValor ==
  /\ pc = "parse_valor_brasileiro"
  /\ valor_out' = parse_valor_brasileiro(valor_in)
  /\ pc' = "returned"
  /\ UNCHANGED <<ap, params, notas, itens, chunk_size, pos, notas_index, index_name, accum,
                 faturamento_por_mes, faturamento_por_uf_emit, faturamento_por_cfop,
                 faturamento_por_ncm, resumo, files, erro, chunks_skipped, used,
                 other_pc, other_params, cols_in, kws_in, col_out, valor_in>>

SpecParse == InitParse /\ [][CallParseValor]_vars

\* --------------------------------------------------------------------
\* Properties
\* --------------------------------------------------------------------
KeyResolves == Truthy(FindChave(NormalizedNames(itens.cols)))

Streamed == pc \in {"stream", "write", "done"}

\* C1: after each processed chunk the running faturamento_bruto is the sum
\* of the parsed item amounts of the rows of itens handed out so far, every
\* row counted exactly once, whether its key matches a nota or not.
C1_GrossIsSumOfItemAmounts ==
  (Streamed /\ KeyResolves) =>
     accum.faturamento_bruto = SumSeq(ItemAmounts(ChunkAt(itens, 0, pos)))

\* C2: after any sequence of processed chunks, each of the four dimension
\* mappings (month, uf_emitente, cfop, ncm) sums to faturamento_bruto, the
\* rows with a missing dimension value included.
C2_BucketsSumToGross ==
  (Streamed /\ KeyResolves) =>
     /\ SumFn(faturamento_por_mes) = accum.faturamento_bruto
     /\ SumFn(faturamento_por_uf_emit) = accum.faturamento_bruto
     /\ SumFn(faturamento_por_cfop) = accum.faturamento_bruto
     /\ SumFn(faturamento_por_ncm) = accum.faturamento_bruto

\* the fields of a run's result that C3 compares
Totals(st) ==
  [total_rows_itens |-> st.accum.total_rows_itens,
   faturamento_bruto |-> st.accum.faturamento_bruto,
   icms_estimado |-> st.accum.icms_estimado, iss_estimado |-> st.accum.iss_estimado,
   pis_estimado |-> st.accum.pis_estimado, cofins_estimado |-> st.accum.cofins_estimado,
   mes |-> st.mes, uf |-> st.uf, cfop |-> st.cfop, ncm |-> st.ncm]

Permuted(chunks, p) == [i \in 1..Len(chunks) |-> chunks[p[i]]]

\* C3: when the stream is exhausted, the row count, the gross revenue, the
\* four proportional taxes and the four dimension mappings are those that
\* every other order of the same chunks gives.
C3_OrderIndependent ==
  (pc = "write" /\ files = <<>>) =>
     \A p \in Permutations(1..Len(ChunksFrom(itens, chunk_size, 0))) :
        Totals(FoldChunks(StartState, Permuted(ChunksFrom(itens, chunk_size, 0), p),
                          notas_index, ap))
        = Totals(St)

\* C4: a run that ends in failure has written none of its six files.
C4_NoPartialOutput == pc = "failed" => files = <<>>

\* C5: a run in which a chunk was skipped for lack of a key column completes
\* with a result that holds a count greater than zero (the skipped chunks or
\* rows).
C5_SkipSurfaced ==
  (pc = "done" /\ chunks_skipped > 0) => \E k \in DOMAIN resumo : resumo[k] > 0

\* C6: every chunk of a run is folded, and IRPJ/CSLL are computed, with the
\* rates and the regime the run was started with, also while a second
\* invocation of the handler assigns the module variables.
C6_ConfigFixedForRun == \A u \in used : u = ConfigOf(ModuleDefaults, params)

\* C7: IRPJ and CSLL are 0 until the stream is exhausted and then, from the
\* final gross revenue: gross * presuncao * rate under lucro_presumido,
\* gross * estimated margin * rate under lucro_real, and 0 under
\* simples_nacional and under every other regime.
C7_IrpjCsllByRegime ==
  /\ pc \in {"idle", "load", "stream"} =>
        accum.irpj_estimado = 0 /\ accum.csll_estimado = 0
  /\ pc \in {"write", "done"} =>
        /\ params.enquadramento = "lucro_presumido" =>
              /\ accum.csll_estimado
                   = accum.faturamento_bruto * params.presuncao * params.aliq_csll
              /\ accum.irpj_estimado
                   = accum.faturamento_bruto * params.presuncao * params.aliq_irpj
        /\ params.enquadramento = "lucro_real" =>
              /\ accum.csll_estimado
                   = accum.faturamento_bruto * ESTIMATED_MARGIN * params.aliq_csll
              /\ accum.irpj_estimado
                   = accum.faturamento_bruto * ESTIMATED_MARGIN * params.aliq_irpj
        /\ params.enquadramento \notin {"lucro_presumido", "lucro_real"} =>
              accum.csll_estimado = 0 /\ accum.irpj_estimado = 0
        /\ resumo.irpj_estimado = accum.irpj_estimado
        /\ resumo.csll_estimado = accum.csll_estimado
        /\ resumo.faturamento_bruto = accum.faturamento_bruto

\* a run of an unknown regime has completed on a positive gross revenue
C7_UnknownRegimeDone ==
  /\ pc = "done"
  /\ params.enquadramento = "mei"
  /\ accum.faturamento_bruto > 0
  /\ accum.irpj_estimado = 0 /\ accum.csll_estimado = 0

ProportionalTaxes(acc) ==
  <<acc.icms_estimado, acc.iss_estimado, acc.pis_estimado, acc.cofins_estimado>>

Regimes == {"lucro_presumido", "lucro_real", "simples_nacional", "mei"}

\* C8: after every processed chunk each of ICMS, ISS, PIS and COFINS is the
\* running faturamento_bruto times its configured rate, and neither folding a
\* chunk nor the final estimation makes them depend on the regime.
C8_ProportionalTaxes ==
  /\ accum.icms_estimado = accum.faturamento_bruto * params.aliq_icms
  /\ accum.iss_estimado = accum.faturamento_bruto * params.aliq_iss
  /\ accum.pis_estimado = accum.faturamento_bruto * params.aliq_pis
  /\ accum.cofins_estimado = accum.faturamento_bruto * params.aliq_cofins
  /\ \A r \in Regimes :
        /\ ProportionalTaxes(EstimateIrpjCsll(accum, [ap EXCEPT !.ENQUADRAMENTO = r]))
             = ProportionalTaxes(accum)
        /\ ProportionalTaxes(FoldAccum(accum, [valor |-> <<100, 250>>],
                                       [ap EXCEPT !.ENQUADRAMENTO = r]))
             = ProportionalTaxes(FoldAccum(accum, [valor |-> <<100, 250>>],
                                           ap))

\* three chunks have been folded under a regime other than the default
C8_ThreeChunksFolded ==
  /\ pc = "stream"
  /\ chunk_size = 1 /\ pos = 3
  /\ params.enquadramento = "simples_nacional"
  /\ accum.faturamento_bruto > 0
  /\ accum.icms_estimado > 0

\* C9: find_best_column returns the first column, in the order of cols, whose
\* normalized name holds all the keywords; when there is none, the first
\* whose normalized name holds any keyword; when there is none, None.
C9_FindBestColumn ==
  pc = "returned" =>
     LET names  == [i \in 1..Len(cols_in) |-> normalize_colname(cols_in[i])]
         strict == {i \in 1..Len(cols_in) :
                      \A k \in 1..Len(kws_in) : Contains(names[i], kws_in[k])}
         loose  == {i \in 1..Len(cols_in) :
                      \E k \in 1..Len(kws_in) : Contains(names[i], kws_in[k])}
         First(S) == CHOOSE i \in S : \A j \in S : i <= j
     IN  IF strict # {} THEN col_out = cols_in[First(strict)]
         ELSE IF loose # {} THEN col_out = cols_in[First(loose)]
         ELSE col_out = None

\* the strict pass has chosen the third column although the first one holds
\* one of the keywords
C9_StrictBeatsEarlierLoose ==
  /\ pc = "returned"
  /\ cols_in = <<"VALOR UNITÁRIO", "Total", "Valor Total">>
  /\ kws_in = <<"valor", "total">>
  /\ col_out = "Valor Total"

\* C10: on a text, "," without "." is the decimal separator; with both, "."
\* groups thousands and "," is the decimal separator; with "." only or
\* neither, the text is parsed as it is.  "2.970,00" and "2970,00" give
\* 2970.0, "2970.00" gives 2970.0, "" and a missing value give 0.0.
C10_ParseValor ==
  pc = "returned" =>
     /\ valor_in \in {Str("2.970,00"), Str("2970,00"), Str("2970.00")} =>
           valor_out = Float(2970, 0)
     /\ valor_in \in {Str(""), NullCell} => valor_out = Float(0, 0)
     /\ (valor_in.t = "str" /\ Strip(valor_in.v, " ") # "") =>
           LET c == CleanOf(valor_in.v)
               decimal_comma == ReplaceCh(c, ",", ".")
               grouped == ReplaceCh(Remove(c, "."), ",", ".")
           IN  /\ (HasComma(c) /\ ~HasDot(c) /\ PyFloat(decimal_comma).ok) =>
                     valor_out = FloatOf(PyFloat(decimal_comma))
               /\ (HasComma(c) /\ HasDot(c) /\ PyFloat(grouped).ok) =>
                     valor_out = FloatOf(PyFloat(grouped))
               /\ (~HasComma(c) /\ PyFloat(c).ok) =>
                     valor_out = FloatOf(PyFloat(c))

\* "2970.00" has been parsed to 2970.0
C10_DotOnlyParsedDirectly ==
  /\ pc = "returned"
  /\ valor_in = Str("2970.00")
  /\ valor_out = Float(2970, 0)

\* the rows of a table of itens as the loop sees them before the merge:
\* columns normalized, key column renamed (lines 206-213)
KeyedRows(tbl) ==
  RenameCol(NormalizeCols(tbl), FindChave(NormalizedNames(tbl.cols)), "chave_acesso").rows

\* the parents' region is the only region the rows of itens can get
RegionFromParent ==
  /\ "uf_emitente" \in ColSet(notas_index.cols)
  /\ ~Truthy(OrCol(find_best_column(NormalizedNames(itens.cols), <<"uf_emitente">>),
                   find_best_column(NormalizedNames(itens.cols), <<"uf_emit">>)))

\* the rows of notas_index whose key is that of the cell key and whose
\* region is u
ParentsOf(key, u) ==
  {j \in 1..Len(notas_index.rows) :
     /\ notas_index.rows[j]["chave_acesso"] = key
     /\ notas_index.rows[j]["uf_emitente"] = Str(u)}

\* the amount that a left join by key brings under the region u from the
\* first n rows of itens
JoinedByKey(u, n) ==
  SumSeq([i \in 1..n |->
            ItemAmounts(ChunkAt(itens, 0, n))[i]
            * Cardinality(ParentsOf(KeyedRows(ChunkAt(itens, 0, n))[i]["chave_acesso"], u))])

ParentRegions ==
  {notas_index.rows[j]["uf_emitente"].v :
     j \in {k \in 1..Len(notas_index.rows) : notas_index.rows[k]["uf_emitente"].t = "str"}}

BucketAt(bucket, k) == IF k \in DOMAIN bucket THEN bucket[k] ELSE 0

\* C11: in every processed chunk, the first one included, a row of itens gets
\* the attributes of the notas whose key equals its key and of no other
\* nota: under each region of a nota, the region mapping holds the amounts
\* of the rows whose key is that of a nota of the region.
C11_JoinedByKey ==
  (Streamed /\ KeyResolves /\ RegionFromParent) =>
     \A u \in ParentRegions : BucketAt(faturamento_por_uf_emit, u) = JoinedByKey(u, pos)

\* no column of itens other than the unit price is an amount column
NoTotalColumn ==
  \A i \in 1..Len(itens.cols) :
     normalize_colname(itens.cols[i]) # "valor_unitario"
        => ~Contains(normalize_colname(itens.cols[i]), "valor")

UnitAndQuantity ==
  /\ "valor_unitario" \in ColSet(NormalizedNames(itens.cols))
  /\ "quantidade" \in ColSet(NormalizedNames(itens.cols))

\* C12: in a chunk without a total-amount column, the amount of a row is
\* parsed(valor_unitario) * parsed(quantidade) when both columns are there,
\* and 0.0 when they are not.
C12_UnitTimesQuantity ==
  (Streamed /\ KeyResolves /\ NoTotalColumn) =>
     \A i \in 1..pos :
        ItemAmounts(ChunkAt(itens, 0, pos))[i]
        = IF UnitAndQuantity
          THEN Cents(Mul(parse_valor_brasileiro(KeyedRows(ChunkAt(itens, 0, pos))[i]["valor_unitario"]),
                         FloatOf(QtdFloat(KeyedRows(ChunkAt(itens, 0, pos))[i]["quantidade"]))))
          ELSE 0

\* C13: the iteration on a chunk whose key column cannot be resolved leaves
\* the accumulator and the four dimension mappings as they are, consumes
\* that chunk only, and leaves the run streaming, with nothing written yet.
C13_SkipLeavesTotals ==
  [][(pc = "stream" /\ ~KeyResolves /\ pos' > pos) =>
        /\ accum' = accum
        /\ faturamento_por_mes' = faturamento_por_mes
        /\ faturamento_por_uf_emit' = faturamento_por_uf_emit
        /\ faturamento_por_cfop' = faturamento_por_cfop
        /\ faturamento_por_ncm' = faturamento_por_ncm
        /\ pos' = NextEnd
        /\ pc' = "stream"
        /\ files' = files]_vars

\* a run in which two chunks were skipped has written its six files, its
\* totals still those of the start
C13_SkippedRunDone ==
  /\ pc = "done"
  /\ chunks_skipped >= 2
  /\ Len(files) = Len(FILES)
  /\ accum = AccumInit
  /\ faturamento_por_mes = EmptyBucket

\* a label yyyy-mm
IsMonthLabel(k) ==
  /\ Len(k) = 7
  /\ Ch(k, 5) = "-"
  /\ IsDigits(SubSeq(k, 1, 4))
  /\ IsDigits(SubSeq(k, 6, 7))

\* neither itens nor notas has an emission-date column
NoDateColumn ==
  /\ "data_emissao" \notin ColSet(NormalizedNames(itens.cols))
  /\ "data_emissao" \notin ColSet(notas_index.cols)

\* C14: in the month mapping a row is summed under the month of its
\* emission date when the date parses and under the label "unknown" when
\* it is absent or does not parse; without any emission-date column all the
\* amounts are under "unknown".
C14_UnknownMonthLabel ==
  (Streamed /\ KeyResolves) =>
     /\ \A k \in DOMAIN faturamento_por_mes : k = "unknown" \/ IsMonthLabel(k)
     /\ (NoDateColumn /\ pos > 0) =>
           faturamento_por_mes = [k \in {"unknown"} |-> accum.faturamento_bruto]

====
